---- MODULE Spec2Model ----
(***************************************************************************)
(* Model of src/agent_orchestrator.py: the AgentOrchestrator task          *)
(* lifecycle (create / start / check / list / stop / delete), the          *)
(* process-local table RUNNING_AGENTS, the persisted tasks.json, the git   *)
(* worktrees and the external agent processes.                             *)
(*                                                                         *)
(* Every controller method is one atomic action (the program is            *)
(* single-threaded, one command at a time).  The environment acts through  *)
(* ProcExit (an agent process ends) and Restart (the controller process is *)
(* replaced by a new one).  In Spec writing tasks.json succeeds, uuid4     *)
(* never repeats a value and one controller process runs at a time; the    *)
(* specifications after Spec lift these three assumptions one at a time.   *)
(***************************************************************************)
EXTENDS Integers, Sequences, FiniteSets, TLC

\* ---------------------------------------------------------------- bounds
\* tasks ever created (one uuid each), agent processes ever launched
MaxTasks == 1
MaxProcs == 2
\* length of the descriptions select_agent is tried on
MaxDescLen == 4

TaskIds == 1..MaxTasks

\* ------------------------------------------------------------- constants
\* Optional[...] = None for the text fields and for the two timestamps
None == "None"
NoTime == -1

\* text is a sequence of characters.  The descriptions and the branch
\* names given to create_task in Spec
Descriptions == { <<"U", "I">> }
Branches == { <<"f", "/", "x">> }

\* create_task called without a branch (branch = None; "" is falsy too)
NoBranch == <<>>

\* str(e) for the exception raised by each step of start_task
ErrGit == "git worktree add: command failed to run"
ErrDeps == "install deps: command failed to run"
ErrPrompt == "prompt file: write failed"
ErrCwd == "Popen: cwd does not exist"
ErrStopped == "Stopped by user"

\* what goes wrong in one start_task call: nothing; git cannot be run; the
\* install tool _install_deps calls cannot be run; the prompt file cannot
\* be written
Faults == {"none", "git", "deps", "prompt"}

VARIABLES
  tasks,          \* self.tasks : task id -> Task
  disk,           \* contents of tasks.json : task id -> JSON object
  RUNNING_AGENTS, \* module global : task id -> pid of the Popen handle
  procs,          \* agent processes launched so far, indexed by pid
  worktrees,      \* worktree directories that exist
  clock,          \* what datetime.now() reads next; every reading is later
                  \* than the one before (a process launch or exit lies
                  \* between any two)
  nextId,         \* the next id uuid4 yields
  other           \* self.tasks of a second controller process that has
                  \* loaded tasks.json and not yet run its command

vars == <<tasks, disk, RUNNING_AGENTS, procs, worktrees, clock, nextId, other>>

\* ------------------------------------------------------------ dict helpers
EmptyMap == [x \in {} |-> None]

MapSet(f, k, v) == [x \in (DOMAIN f) \cup {k} |-> IF x = k THEN v ELSE f[x]]

MapDel(f, k) == [x \in (DOMAIN f) \ {k} |-> f[x]]

\* the value of other while no second controller process runs
NoController == [x \in {0} |-> "none"]

\* ------------------------------------------------------------------- text
UpperCase == <<"A", "B", "C", "D", "E", "F", "G", "H", "I", "J", "K", "L", "M",
               "N", "O", "P", "Q", "R", "S", "T", "U", "V", "W", "X", "Y", "Z">>
LowerCase == <<"a", "b", "c", "d", "e", "f", "g", "h", "i", "j", "k", "l", "m",
               "n", "o", "p", "q", "r", "s", "t", "u", "v", "w", "x", "y", "z">>

\* str.lower()
lower(s) ==
  [i \in 1..Len(s) |->
     IF \E k \in DOMAIN UpperCase : UpperCase[k] = s[i]
       THEN LowerCase[CHOOSE k \in DOMAIN UpperCase : UpperCase[k] = s[i]]
       ELSE s[i]]

\* kw in s
Contains(s, kw) ==
  \E i \in 0..(Len(s) - Len(kw)) : SubSeq(s, i + 1, i + Len(kw)) = kw

\* s[:n]
Slice(s, n) == SubSeq(s, 1, IF Len(s) < n THEN Len(s) ELSE n)

\* s.replace(a, b) for single characters a, b
Replace(s, a, b) == [i \in 1..Len(s) |-> IF s[i] = a THEN b ELSE s[i]]

\* ----------------------------------------------------------- select_agent
\* a character outside ASCII is written as its code point
FrontendKeywords ==
  { <<"f", "r", "o", "n", "t", "e", "n", "d">>, <<"u", "i">>,
    <<"U+754C", "U+9762">>, <<"U+524D", "U+7AEF">>, <<"r", "e", "a", "c", "t">>,
    <<"v", "u", "e">> }
BackendKeywords ==
  { <<"b", "a", "c", "k", "e", "n", "d">>, <<"U+540E", "U+7AEF">>, <<"a", "p", "i">>,
    <<"d", "a", "t", "a", "b", "a", "s", "e">>, <<"U+6570", "U+636E", "U+5E93">> }
LocaleKeywords ==
  { <<"c", "n">>, <<"U+4E2D", "U+6587">>, <<"c", "h", "i", "n", "a">> }

\* select_agent with a fault: the locale keywords are tried first
select_agent_LocaleFirst(task_description) ==
  LET task_lower == lower(task_description)
  IN IF \E kw \in LocaleKeywords : Contains(task_lower, kw) THEN "glm"
     ELSE IF \E kw \in FrontendKeywords : Contains(task_lower, kw) THEN "claude"
     ELSE "codex"

select_agent(task_description) ==
  LET task_lower == lower(task_description)
  IN IF \E kw \in FrontendKeywords : Contains(task_lower, kw) THEN "claude"
     ELSE IF \E kw \in BackendKeywords : Contains(task_lower, kw) THEN "codex"
     ELSE IF \E kw \in LocaleKeywords : Contains(task_lower, kw) THEN "glm"
     ELSE "codex"

\* ------------------------------------------------------------------- Task
BranchSliceLen == 30

\* the branch of a new task: the one given, or one made from the description
BranchFor(description, branch) ==
  IF branch = NoBranch
    THEN <<"f", "e", "a", "t", "/">>
           \o lower(Replace(Slice(description, BranchSliceLen), " ", "-"))
    ELSE branch

NewTask(id, description, branch) ==
  [ id |-> id, description |-> description,
    agent_type |-> select_agent(description),
    branch |-> BranchFor(description, branch),
    status |-> "pending", started_at |-> NoTime, completed_at |-> NoTime,
    error |-> None ]

\* ------------------------------------------------------------- tasks.json
\* json.dump of an Optional[str] field and json.load of it
JsonOpt(v, none) == IF v = none THEN <<"null">> ELSE <<"str", v>>
PyOpt(j, none) == IF j = <<"null">> THEN none ELSE j[2]

\* asdict(task) as written by json.dump
ToJson(task) ==
  [ id |-> <<"str", task.id>>, description |-> <<"str", task.description>>,
    agent_type |-> <<"str", task.agent_type>>, branch |-> <<"str", task.branch>>,
    status |-> <<"str", task.status>>,
    started_at |-> JsonOpt(task.started_at, NoTime),
    completed_at |-> JsonOpt(task.completed_at, NoTime),
    error |-> JsonOpt(task.error, None) ]

\* Task(**v) for an object v read by json.load
FromJson(v) ==
  [ id |-> v.id[2], description |-> v.description[2],
    agent_type |-> v.agent_type[2], branch |-> v.branch[2],
    status |-> v.status[2],
    started_at |-> PyOpt(v.started_at, NoTime),
    completed_at |-> PyOpt(v.completed_at, NoTime),
    error |-> PyOpt(v.error, None) ]

\* tasks.json after a write that stopped part-way: not a JSON document
Truncated == [x \in {0} |-> "truncated"]

\* what _save_tasks writes
Dump(m) == [k \in DOMAIN m |-> ToJson(m[k])]

\* _load_tasks: the objects of the file; the empty dict when json.load or
\* Task(**v) raises
Load(file) ==
  IF file = Truncated THEN EmptyMap ELSE [k \in DOMAIN file |-> FromJson(file[k])]

\* task.branch.replace("/", "_")
WorktreePath(branch) ==
  [i \in 1..Len(branch) |-> IF branch[i] = "/" THEN "_" ELSE branch[i]]

Init ==
  /\ tasks = EmptyMap
  /\ disk = EmptyMap
  /\ RUNNING_AGENTS = EmptyMap
  /\ procs = <<>>
  /\ worktrees = {}
  /\ clock = 0
  /\ nextId = 1
  /\ other = NoController

\* A controller method is modelled by the state it leaves and the value it
\* returns, as a record; the action of the method installs that record.
Now ==
  [ tasks |-> tasks, disk |-> disk, table |-> RUNNING_AGENTS, procs |-> procs,
    worktrees |-> worktrees, clock |-> clock, ret |-> None ]

Install(post) ==
  LET p == post
  IN /\ tasks' = p.tasks
     /\ disk' = p.disk
     /\ RUNNING_AGENTS' = p.table
     /\ procs' = p.procs
     /\ worktrees' = p.worktrees
     /\ clock' = p.clock

\* _save_tasks
Saved(st) == [st EXCEPT !.disk = Dump(st.tasks)]

\* ------------------------------------------------------------ create_task
\* create_task when uuid4 yields id
CreateStep(st, id, description, branch) ==
  Saved([st EXCEPT
    !.tasks = MapSet(st.tasks, id, NewTask(id, description, branch)),
    !.ret = NewTask(id, description, branch)])

CreatePost(id, description, branch) == CreateStep(Now, id, description, branch)

create_task(description, branch) ==
  /\ nextId <= MaxTasks
  /\ Install(CreatePost(nextId, description, branch))
  /\ nextId' = nextId + 1
  /\ UNCHANGED other

\* ------------------------------------------------------------- start_task
\* the worktree directories after step 1 of start_task: git creates the
\* directory (gitOk), exits non-zero, or cannot be run at all (fault "git")
WorktreesAfterEnsure(path, fault, gitOk) ==
  IF path \notin worktrees /\ fault # "git" /\ gitOk
    THEN worktrees \cup {path}
    ELSE worktrees

\* StartError with a fault: git is run even when the directory exists
StartError_AlwaysRunsGit(path, fault, gitOk) ==
  IF fault = "git" THEN ErrGit
  ELSE IF fault = "deps" /\ path \in WorktreesAfterEnsure(path, fault, gitOk) THEN ErrDeps
  ELSE IF fault = "prompt" THEN ErrPrompt
  ELSE IF path \notin WorktreesAfterEnsure(path, fault, gitOk) THEN ErrCwd
  ELSE None

\* str(e) of the exception start_task catches, None when no step raises
StartError(path, fault, gitOk) ==
  IF path \notin worktrees /\ fault = "git" THEN ErrGit
  ELSE IF fault = "deps" /\ path \in WorktreesAfterEnsure(path, fault, gitOk) THEN ErrDeps
  ELSE IF fault = "prompt" THEN ErrPrompt
  ELSE IF path \notin WorktreesAfterEnsure(path, fault, gitOk) THEN ErrCwd
  ELSE None

\* no step raised: _start_agent registers the new process, then the record
\* is set to running, stamped and saved
StartRunning(st, id, wt) ==
  Saved([st EXCEPT
    !.worktrees = wt,
    !.procs = Append(st.procs, [task |-> id, state |-> "alive"]),
    !.table = MapSet(st.table, id, Len(st.procs) + 1),
    !.tasks = [st.tasks EXCEPT ![id].status = "running",
                               ![id].started_at = st.clock],
    !.clock = st.clock + 1,
    !.ret = TRUE])

\* StartFailed with a fault: the failure is recorded in memory and not saved
StartFailed_NotSaved(st, id, err, wt) ==
  [st EXCEPT
    !.worktrees = wt,
    !.tasks = [st.tasks EXCEPT ![id].status = "failed", ![id].error = err],
    !.ret = FALSE]

\* except Exception as e
StartFailed(st, id, err, wt) ==
  Saved([st EXCEPT
    !.worktrees = wt,
    !.tasks = [st.tasks EXCEPT ![id].status = "failed", ![id].error = err],
    !.ret = FALSE])

\* start_task run by a controller whose memory, table and files are st
StartStep(st, id, fault, gitOk) ==
  IF id \notin DOMAIN st.tasks
  THEN [st EXCEPT !.ret = FALSE]
  ELSE IF StartError(WorktreePath(st.tasks[id].branch), fault, gitOk) = None
  THEN StartRunning(st, id,
         WorktreesAfterEnsure(WorktreePath(st.tasks[id].branch), fault, gitOk))
  ELSE StartFailed(st, id,
         StartError(WorktreePath(st.tasks[id].branch), fault, gitOk),
         WorktreesAfterEnsure(WorktreePath(st.tasks[id].branch), fault, gitOk))

StartPost(id, fault, gitOk) == StartStep(Now, id, fault, gitOk)

start_task(id, fault, gitOk) ==
  LET post == StartPost(id, fault, gitOk)
  IN /\ Len(post.procs) <= MaxProcs
     /\ Install(post)
     /\ UNCHANGED <<nextId, other>>

\* ------------------------------------------------------ check_task_status
\* Ended with a fault: a tracked process counts as ended while it runs
Ended_WhileAlive(st, id) ==
  /\ st.tasks[id].status = "running"
  /\ id \in DOMAIN st.table
  /\ st.procs[st.table[id]].state \in {"alive", "exited"}

\* Ended with a fault: a running task without a table entry counts as ended
Ended_Untracked(st, id) ==
  /\ st.tasks[id].status = "running"
  /\ (id \in DOMAIN st.table => st.procs[st.table[id]].state = "exited")

\* status == "running", the id is in RUNNING_AGENTS and poll() is not None
Ended(st, id) ==
  /\ st.tasks[id].status = "running"
  /\ id \in DOMAIN st.table
  /\ st.procs[st.table[id]].state = "exited"

NotFound == [error |-> "Task not found"]

\* CheckStep with a fault: the end of the process is recorded as a failure
CheckStep_MarksFailed(st, id) ==
  IF id \notin DOMAIN st.tasks THEN [st EXCEPT !.ret = NotFound]
  ELSE IF Ended(st, id)
  THEN Saved([st EXCEPT
         !.tasks = [st.tasks EXCEPT ![id].status = "failed",
                                    ![id].completed_at = st.clock],
         !.table = MapDel(st.table, id),
         !.clock = st.clock + 1,
         !.ret = [st.tasks[id] EXCEPT !.status = "failed",
                                      !.completed_at = st.clock]])
  ELSE [st EXCEPT !.ret = st.tasks[id]]

\* CheckStep with a fault: the table entry is kept when the task completes
CheckStep_KeepsEntry(st, id) ==
  IF id \notin DOMAIN st.tasks THEN [st EXCEPT !.ret = NotFound]
  ELSE IF Ended(st, id)
  THEN Saved([st EXCEPT
         !.tasks = [st.tasks EXCEPT ![id].status = "completed",
                                    ![id].completed_at = st.clock],
         !.clock = st.clock + 1,
         !.ret = [st.tasks[id] EXCEPT !.status = "completed",
                                      !.completed_at = st.clock]])
  ELSE [st EXCEPT !.ret = st.tasks[id]]

\* check_task_status run in state st; ret is the view it returns
CheckStep(st, id) ==
  IF id \notin DOMAIN st.tasks THEN [st EXCEPT !.ret = NotFound]
  ELSE IF Ended(st, id)
  THEN Saved([st EXCEPT
         !.tasks = [st.tasks EXCEPT ![id].status = "completed",
                                    ![id].completed_at = st.clock],
         !.table = MapDel(st.table, id),
         !.clock = st.clock + 1,
         !.ret = [st.tasks[id] EXCEPT !.status = "completed",
                                      !.completed_at = st.clock]])
  ELSE [st EXCEPT !.ret = st.tasks[id]]

CheckPost(id) == CheckStep(Now, id)

check_task_status(id) ==
  /\ Install(CheckPost(id))
  /\ UNCHANGED <<nextId, other>>

\* ------------------------------------------------------------- list_tasks
\* [self.check_task_status(tid) for tid in self.tasks], in dict order; the
\* views are collected in ret
RECURSIVE ListFrom(_, _, _)
ListFrom(st, views, id) ==
  IF id > MaxTasks THEN [st EXCEPT !.ret = views]
  ELSE IF id \notin DOMAIN st.tasks THEN ListFrom(st, views, id + 1)
  ELSE ListFrom(CheckStep(st, id), Append(views, CheckStep(st, id).ret), id + 1)

ListPost == ListFrom(Now, <<>>, 1)

list_tasks ==
  /\ Install(ListPost)
  /\ UNCHANGED <<nextId, other>>

\* -------------------------------------------------------------- stop_task
\* os.killpg(os.getpgid(proc.pid), SIGTERM) does not raise: always for a
\* process that is still running; for one that has ended and was not
\* reaped the platform decides (killOk)
KillSucceeds(pid, killOk) == procs[pid].state = "alive" \/ killOk

\* StopSucceeds with a fault: the store is not consulted before the table
StopSucceeds_NoStoreCheck(id, killOk) ==
  /\ id \in DOMAIN RUNNING_AGENTS
  /\ KillSucceeds(RUNNING_AGENTS[id], killOk)

\* stop_task reaches return True
StopSucceeds(id, killOk) ==
  /\ id \in DOMAIN tasks
  /\ id \in DOMAIN RUNNING_AGENTS
  /\ KillSucceeds(RUNNING_AGENTS[id], killOk)

\* StopPost with a fault: a stopped task is recorded as completed
StopPost_Completed(id, killOk) ==
  IF StopSucceeds(id, killOk)
  THEN Saved([Now EXCEPT
         !.procs = [procs EXCEPT ![RUNNING_AGENTS[id]].state =
                      IF @ = "alive" THEN "signalled" ELSE @],
         !.tasks = [tasks EXCEPT ![id].status = "completed", ![id].error = ErrStopped],
         !.table = MapDel(RUNNING_AGENTS, id),
         !.ret = TRUE])
  ELSE [Now EXCEPT !.ret = FALSE]

\* SIGTERM reaches the process group if it is still running
StopPost(id, killOk) ==
  IF StopSucceeds(id, killOk)
  THEN Saved([Now EXCEPT
         !.procs = [procs EXCEPT ![RUNNING_AGENTS[id]].state =
                      IF @ = "alive" THEN "signalled" ELSE @],
         !.tasks = [tasks EXCEPT ![id].status = "failed", ![id].error = ErrStopped],
         !.table = MapDel(RUNNING_AGENTS, id),
         !.ret = TRUE])
  ELSE [Now EXCEPT !.ret = FALSE]

stop_task(id, killOk) ==
  /\ Install(StopPost(id, killOk))
  /\ UNCHANGED <<nextId, other>>

\* ------------------------------------------------------------ delete_task
\* DeletePost with a fault: the record is erased only if the stop succeeded
DeletePost_OnlyIfStopped(id, killOk) ==
  IF id \in DOMAIN tasks /\ StopPost(id, killOk).ret
  THEN Saved([StopPost(id, killOk) EXCEPT
         !.tasks = MapDel(StopPost(id, killOk).tasks, id),
         !.ret = TRUE])
  ELSE [Now EXCEPT !.ret = FALSE]

\* self.stop_task(task_id); del self.tasks[task_id]; self._save_tasks()
DeletePost(id, killOk) ==
  IF id \in DOMAIN tasks
  THEN Saved([StopPost(id, killOk) EXCEPT
         !.tasks = MapDel(StopPost(id, killOk).tasks, id),
         !.ret = TRUE])
  ELSE [Now EXCEPT !.ret = FALSE]

delete_task(id, killOk) ==
  /\ Install(DeletePost(id, killOk))
  /\ UNCHANGED <<nextId, other>>

\* ------------------------------------------------------------ environment
\* an agent process ends on its own
ProcExit(pid) ==
  /\ pid \in DOMAIN procs
  /\ procs[pid].state = "alive"
  /\ procs' = [procs EXCEPT ![pid].state = "exited"]
  /\ UNCHANGED <<tasks, disk, RUNNING_AGENTS, worktrees, clock, nextId, other>>

\* a new controller process: RUNNING_AGENTS = {} at import, __init__ calls
\* _load_tasks; the processes of the old one go on without a handle
Restart ==
  /\ tasks' = Load(disk)
  /\ RUNNING_AGENTS' = EmptyMap
  /\ procs' = [p \in DOMAIN procs |-> [procs[p] EXCEPT !.state = "orphan"]]
  /\ UNCHANGED <<disk, worktrees, clock, nextId, other>>

Next ==
  \/ \E d \in Descriptions, b \in Branches : create_task(d, b)
  \/ \E id \in TaskIds, f \in Faults, g \in BOOLEAN : start_task(id, f, g)
  \/ \E id \in TaskIds : check_task_status(id)
  \/ list_tasks
  \/ \E id \in TaskIds, k \in BOOLEAN : stop_task(id, k)
  \/ \E id \in TaskIds, k \in BOOLEAN : delete_task(id, k)
  \/ \E pid \in 1..MaxProcs : ProcExit(pid)
  \/ Restart

Spec == Init /\ [][Next]_vars

\* --------------------------------------------------------------- fairness
\* the calls made on one controller instance: Next without Restart
NextLive ==
  \/ \E d \in Descriptions, b \in Branches : create_task(d, b)
  \/ \E id \in TaskIds, f \in Faults, g \in BOOLEAN : start_task(id, f, g)
  \/ \E id \in TaskIds : check_task_status(id)
  \/ list_tasks
  \/ \E id \in TaskIds, k \in BOOLEAN : stop_task(id, k)
  \/ \E id \in TaskIds, k \in BOOLEAN : delete_task(id, k)
  \/ \E pid \in 1..MaxProcs : ProcExit(pid)

\* the end-to-end scenario on one controller instance: every agent process
\* that is running exits at some time (the agent command is a finite run),
\* and the user goes on asking for the status (check_task_status or
\* list_tasks), so a check that would observe an ended process is made at
\* some time
SpecLive ==
  /\ Init /\ [][NextLive]_vars
  /\ \A pid \in 1..MaxProcs : WF_vars(ProcExit(pid))
  /\ \A id \in TaskIds : WF_vars(check_task_status(id))

\* ------------------------------------------------------- any description
\* the characters of the descriptions tried: enough to spell a keyword of
\* each of the three lists ("ui", "api", "cn") in either case, and a space
Alphabet == {"U", "u", "i", "a", "p", "c", "n", " "}

\* every text over Alphabet of length 0..MaxDescLen
AllDescriptions == UNION {[1..n -> Alphabet] : n \in 0..MaxDescLen}

\* create_task in a new workspace, with any description and no branch
NextSelect ==
  /\ tasks = EmptyMap
  /\ \E d \in AllDescriptions : create_task(d, NoBranch)

SpecSelect == Init /\ [][NextSelect]_vars

\* ------------------------------------------------------ uuid4 repeats
\* the descriptions given to create_task in SpecUuid
TwoDescriptions == { <<"U", "I">>, <<"a", "p", "i">> }

\* create_task when uuid4().hex[:8] comes out as an id made before: line
\* 131 assigns self.tasks[task_id] whether or not the key is there
create_task_repeat(id, description, branch) ==
  /\ id \in 1..(nextId - 1)
  /\ Install(CreatePost(id, description, branch))
  /\ UNCHANGED <<nextId, other>>

\* Spec with ids that may repeat: the id is 8 hex digits of a random uuid
NextUuid ==
  \/ Next
  \/ \E id \in TaskIds, d \in TwoDescriptions, b \in Branches :
       create_task_repeat(id, d, b)

SpecUuid == Init /\ [][NextUuid]_vars

\* ------------------------------------------- a second controller process
\* a second "python3 agent_orchestrator.py ..." is started on the same
\* workspace while the first controller goes on: __init__ loads tasks.json
OtherLoads ==
  /\ other = NoController
  /\ other' = Load(disk)
  /\ UNCHANGED <<tasks, disk, RUNNING_AGENTS, procs, worktrees, clock, nextId>>

\* the state the second process works on: its own self.tasks, its own
\* (empty) RUNNING_AGENTS, the files and processes of the machine
OtherNow ==
  [ tasks |-> other, disk |-> disk, table |-> EmptyMap, procs |-> procs,
    worktrees |-> worktrees, clock |-> clock, ret |-> None ]

\* the second process runs its command, start <id>, and ends; the agent
\* it launched goes on without a controller holding its handle
OtherStarts(id, fault, gitOk) ==
  LET post == StartStep(OtherNow, id, fault, gitOk)
  IN /\ other # NoController
     /\ Len(post.procs) <= MaxProcs
     /\ disk' = post.disk
     /\ procs' = [p \in DOMAIN post.procs |->
                    IF p \in DOMAIN procs THEN post.procs[p]
                    ELSE [post.procs[p] EXCEPT !.state = "orphan"]]
     /\ worktrees' = post.worktrees
     /\ clock' = post.clock
     /\ other' = NoController
     /\ UNCHANGED <<tasks, RUNNING_AGENTS, nextId>>

\* the second process runs a command that writes nothing (status, list,
\* stop: its RUNNING_AGENTS is empty) and ends
OtherEnds ==
  /\ other # NoController
  /\ other' = NoController
  /\ UNCHANGED <<tasks, disk, RUNNING_AGENTS, procs, worktrees, clock, nextId>>

\* Spec with a second controller process whose load and command may have
\* calls of the first controller between them: nothing in the program
\* (no lock, no file lock, no re-read before a write) keeps them apart
NextTwo ==
  \/ Next
  \/ OtherLoads
  \/ \E id \in TaskIds, f \in Faults, g \in BOOLEAN : OtherStarts(id, f, g)
  \/ OtherEnds

SpecTwo == Init /\ [][NextTwo]_vars

\* ------------------------------------------------- tasks.json not writable
\* how _save_tasks raises: open(..., 'w') fails and the file stays as it
\* was, or open has emptied the file and json.dump fails part-way
WriteFaults == {"unwritable", "truncated"}

FailedWrite(st, write) ==
  [st EXCEPT !.disk = IF write = "truncated" THEN Truncated ELSE st.disk]

\* stop_task when its _save_tasks raises: the signal is sent, the record
\* and the table are changed, then the bare except returns False
StopPostWriteFails(id, killOk, write) ==
  IF StopSucceeds(id, killOk)
  THEN FailedWrite([Now EXCEPT
         !.procs = [procs EXCEPT ![RUNNING_AGENTS[id]].state =
                      IF @ = "alive" THEN "signalled" ELSE @],
         !.tasks = [tasks EXCEPT ![id].status = "failed", ![id].error = ErrStopped],
         !.table = MapDel(RUNNING_AGENTS, id),
         !.ret = FALSE], write)
  ELSE [Now EXCEPT !.ret = FALSE]

stop_task_write_fails(id, killOk, write) ==
  /\ Install(StopPostWriteFails(id, killOk, write))
  /\ UNCHANGED <<nextId, other>>

\* Spec with stop_task calls during which tasks.json cannot be written.
\* (In the other methods the exception of _save_tasks is not caught: the
\* command ends with it and returns nothing.)
NextIO ==
  \/ Next
  \/ \E id \in TaskIds, k \in BOOLEAN, w \in WriteFaults :
       stop_task_write_fails(id, k, w)

SpecIO == Init /\ [][NextIO]_vars

\* =================================================================== claims
Terminal(st) == st \in {"completed", "failed"}

Rank(st) == CASE st = "pending" -> 0 [] st = "running" -> 1 [] OTHER -> 2

\* processes of task id that this controller launched and that are alive
LiveProcs(id) ==
  {p \in DOMAIN procs : procs[p].task = id /\ procs[p].state = "alive"}

\* the task has an entry in RUNNING_AGENTS whose process has not exited
LiveTracked(id) ==
  /\ id \in DOMAIN tasks
  /\ id \in DOMAIN RUNNING_AGENTS
  /\ procs[RUNNING_AGENTS[id]].state = "alive"

\* the call left memory, tasks.json, the table, the worktrees and the
\* processes as they were
NothingChanged(post) ==
  /\ post.tasks = tasks
  /\ post.disk = disk
  /\ post.table = RUNNING_AGENTS
  /\ post.worktrees = worktrees
  /\ post.procs = procs
  /\ post.clock = clock

\* ids that were created and are no longer in the store
Deleted == {id \in 1..(nextId - 1) : id \notin DOMAIN tasks}

\* C1: a task's status only moves forward along pending -> running ->
\* (completed | failed); a completed or failed task never becomes pending
\* or running again, it can only be deleted.
C1_StatusOnlyForward ==
  [][\A id \in (DOMAIN tasks) \cap (DOMAIN tasks') :
       /\ Rank(tasks'[id].status) >= Rank(tasks[id].status)
       /\ Terminal(tasks[id].status) => Terminal(tasks'[id].status)]_vars

\* C2: in every reachable state at most one agent process launched for a
\* task by this controller is alive.
C2_AtMostOneLiveProcess ==
  \A id \in TaskIds : Cardinality(LiveProcs(id)) <= 1

\* C3: in every reachable state every key of RUNNING_AGENTS is the id of a
\* task in the store whose status is running.
C3_TableImpliesRunning ==
  \A id \in DOMAIN RUNNING_AGENTS :
    id \in DOMAIN tasks /\ tasks[id].status = "running"

\* C4: check_task_status(id) turns running into completed exactly when the
\* status is running, the task has a table entry and that process has
\* exited; it then stamps completed_at, drops the table entry and saves;
\* in every other case status, timestamps and the table stay as they were.
C4_CheckCompletesExactlyOnExit ==
  \A id \in TaskIds :
    IF /\ id \in DOMAIN tasks
       /\ tasks[id].status = "running"
       /\ id \in DOMAIN RUNNING_AGENTS
       /\ procs[RUNNING_AGENTS[id]].state = "exited"
    THEN /\ CheckPost(id).tasks[id].status = "completed"
         /\ CheckPost(id).tasks[id].completed_at = clock
         /\ CheckPost(id).tasks[id].completed_at # NoTime
         /\ CheckPost(id).tasks[id].started_at = tasks[id].started_at
         /\ DOMAIN CheckPost(id).table = (DOMAIN RUNNING_AGENTS) \ {id}
         /\ \A j \in DOMAIN CheckPost(id).table : CheckPost(id).table[j] = RUNNING_AGENTS[j]
         /\ DOMAIN CheckPost(id).tasks = DOMAIN tasks
         /\ \A j \in DOMAIN tasks \ {id} : CheckPost(id).tasks[j] = tasks[j]
         /\ CheckPost(id).disk = Dump(CheckPost(id).tasks)
    ELSE /\ CheckPost(id).tasks = tasks
         /\ CheckPost(id).table = RUNNING_AGENTS
         /\ CheckPost(id).disk = disk

\* a check has completed a task: completed, stamped, no table entry left,
\* and the process that was tracked has exited
C4_Witness ==
  \E id \in DOMAIN tasks :
    /\ tasks[id].status = "completed"
    /\ tasks[id].completed_at # NoTime
    /\ id \notin DOMAIN RUNNING_AGENTS
    /\ \E p \in DOMAIN procs : procs[p].task = id /\ procs[p].state = "exited"
    /\ disk = Dump(tasks)

\* what C5 says of stop_task on a task with a live tracked process, for the
\* error text msg
StopLiveOutcome(msg) ==
  \A id \in TaskIds, k \in BOOLEAN :
    LiveTracked(id) =>
      /\ StopPost(id, k).ret = TRUE
      /\ StopPost(id, k).tasks[id].status = "failed"
      /\ StopPost(id, k).tasks[id].error = msg
      /\ id \notin DOMAIN StopPost(id, k).table
      /\ StopPost(id, k).disk = Dump(StopPost(id, k).tasks)

C6_StopUntracked ==
  \A id \in DOMAIN tasks :
    id \notin DOMAIN RUNNING_AGENTS =>
      /\ \A k \in BOOLEAN :
           StopPost(id, k).ret = FALSE /\ NothingChanged(StopPost(id, k))
      /\ tasks[id].status = "running" =>
           /\ \A j \in TaskIds, k \in BOOLEAN :
                /\ id \in DOMAIN StopPost(j, k).tasks
                /\ StopPost(j, k).tasks[id] = tasks[id]
                /\ StopPost(j, k).disk[id] = disk[id]
                /\ id \notin DOMAIN StopPost(j, k).table
           /\ \A j \in TaskIds :
                /\ id \in DOMAIN CheckPost(j).tasks
                /\ CheckPost(j).tasks[id] = tasks[id]
                /\ CheckPost(j).disk[id] = disk[id]
                /\ id \notin DOMAIN CheckPost(j).table

\* after a restart: the record says running, the table is empty and the
\* process launched for the task has no handle any more
C6_Witness ==
  \E id \in DOMAIN tasks :
    /\ tasks[id].status = "running"
    /\ id \notin DOMAIN RUNNING_AGENTS
    /\ \E p \in DOMAIN procs : procs[p].task = id /\ procs[p].state = "orphan"
    /\ disk[id].status = <<"str", "running">>

\* C7: delete_task on an existing id removes the record from memory and
\* from tasks.json and returns success whatever the inner stop did; from
\* then on the id stays absent and check_task_status reports not-found.
C7_DeleteAlwaysRemoves ==
  /\ [](\A id \in DOMAIN tasks, k \in BOOLEAN :
          /\ DeletePost(id, k).ret = TRUE
          /\ DOMAIN DeletePost(id, k).tasks = (DOMAIN tasks) \ {id}
          /\ DOMAIN DeletePost(id, k).disk = (DOMAIN tasks) \ {id})
  /\ [](\A id \in Deleted : id \notin DOMAIN disk /\ CheckPost(id).ret = NotFound)
  /\ [][\A id \in Deleted : id \notin DOMAIN tasks']_vars

\* a record was deleted although the stop inside delete_task failed: the
\* table still holds the handle of the deleted task
C7_Witness ==
  \E id \in Deleted :
    /\ id \notin DOMAIN disk
    /\ id \in DOMAIN RUNNING_AGENTS

\* C8: start_task, check_task_status, stop_task and delete_task on an id
\* that is not in the store report not-found / failure and change nothing.
C8_AbsentIdNoChange ==
  \A id \in TaskIds \ DOMAIN tasks :
    /\ CheckPost(id).ret = NotFound /\ NothingChanged(CheckPost(id))
    /\ \A k \in BOOLEAN :
         /\ StopPost(id, k).ret = FALSE /\ NothingChanged(StopPost(id, k))
         /\ DeletePost(id, k).ret = FALSE /\ NothingChanged(DeletePost(id, k))
    /\ \A f \in Faults, g \in BOOLEAN :
         StartPost(id, f, g).ret = FALSE /\ NothingChanged(StartPost(id, f, g))

\* an absent id while the table, the worktrees and the process list are
\* not empty: a deleted task whose ended process is still in the table
C8_Witness ==
  \E id \in TaskIds \ DOMAIN tasks :
    /\ id \in DOMAIN RUNNING_AGENTS
    /\ procs[RUNNING_AGENTS[id]].state = "exited"
    /\ worktrees # {}

\* C9: start_task on an existing task has two outcomes.  A step raises:
\* status = failed, error = the exception text, saved, returns False, and
\* the worktree made before the failure stays.  No step raises: status =
\* running, started_at stamped, a table entry for the task, saved, True.
C9_StartTwoOutcomes ==
  \A id \in DOMAIN tasks, f \in Faults, g \in BOOLEAN :
    LET path == WorktreePath(tasks[id].branch)
        made == path \in worktrees \/ (f # "git" /\ g)
        text == IF f = "git" /\ path \notin worktrees THEN ErrGit
                ELSE IF f = "deps" /\ made THEN ErrDeps
                ELSE IF f = "prompt" THEN ErrPrompt
                ELSE IF ~made THEN ErrCwd
                ELSE None
        post == StartPost(id, f, g)
    IN
    IF text # None
    THEN /\ post.tasks[id].status = "failed"
         /\ post.tasks[id].error = text
         /\ post.disk = Dump(post.tasks)
         /\ post.ret = FALSE
         /\ worktrees \subseteq post.worktrees
         /\ (made /\ f # "git") => path \in post.worktrees
         /\ post.table = RUNNING_AGENTS
         /\ post.procs = procs
    ELSE /\ post.tasks[id].status = "running"
         /\ post.tasks[id].started_at = clock
         /\ post.tasks[id].started_at # NoTime
         /\ id \in DOMAIN post.table
         /\ post.table[id] \notin DOMAIN procs
         /\ post.procs[post.table[id]] = [task |-> id, state |-> "alive"]
         /\ post.disk = Dump(post.tasks)
         /\ post.ret = TRUE

\* a start that failed after it had created the worktree: the task was
\* never started, its error is the exception text, the directory is there
C9_Witness ==
  \E id \in DOMAIN tasks :
    /\ tasks[id].status = "failed"
    /\ tasks[id].error = ErrPrompt
    /\ tasks[id].started_at = NoTime
    /\ WorktreePath(tasks[id].branch) \in worktrees
    /\ procs = <<>>
    /\ disk = Dump(tasks)

\* C10: in every reachable state a task with both timestamps set has
\* completed_at >= started_at.
C10_CompletedNotBeforeStarted ==
  \A id \in DOMAIN tasks :
    (tasks[id].started_at # NoTime /\ tasks[id].completed_at # NoTime) =>
      tasks[id].completed_at >= tasks[id].started_at

\* C11: started_at and completed_at are each set at most once per task:
\* once a task's started_at (completed_at) holds a value, no later step
\* gives it a different value.
C11_TimestampsSetOnce ==
  [][\A id \in (DOMAIN tasks) \cap (DOMAIN tasks') :
       /\ tasks[id].started_at # NoTime =>
            tasks'[id].started_at = tasks[id].started_at
       /\ tasks[id].completed_at # NoTime =>
            tasks'[id].completed_at = tasks[id].completed_at]_vars

\* C12: every mutating operation persists before it returns: after
\* create_task, start_task, check_task_status, stop_task or delete_task has
\* returned, tasks.json equals the in-memory mapping, so a restart at any
\* point between operations recovers exactly the task records.
C12_PersistedEqualsMemory ==
  /\ disk = Dump(tasks)
  /\ Load(disk) = tasks

\* two check_task_status(id) calls in a row
CheckTwice(id) == CheckStep(CheckPost(id), id)

\* C13: after a successful launch (status running, table entry present)
\* check_task_status finds the task live, and changes nothing, for as long
\* as the process has not exited; once it has exited exactly one check
\* observes the end (completed, stamped, entry removed, saved); every
\* later check finds the task untracked and makes no transition and no
\* write.
C13_PollSequence ==
  /\ \A id \in DOMAIN tasks :
       (tasks[id].status = "running" /\ id \in DOMAIN RUNNING_AGENTS) =>
         IF procs[RUNNING_AGENTS[id]].state # "exited"
         THEN /\ CheckPost(id).ret = tasks[id]
              /\ CheckPost(id).ret.status = "running"
              /\ id \in DOMAIN CheckPost(id).table
              /\ NothingChanged(CheckPost(id))
         ELSE /\ CheckPost(id).ret.status = "completed"
              /\ CheckPost(id).ret.completed_at = clock
              /\ CheckPost(id).tasks[id] = CheckPost(id).ret
              /\ id \notin DOMAIN CheckPost(id).table
              /\ CheckPost(id).disk = Dump(CheckPost(id).tasks)
              /\ CheckTwice(id).ret = CheckPost(id).ret
              /\ CheckTwice(id).tasks = CheckPost(id).tasks
              /\ CheckTwice(id).disk = CheckPost(id).disk
              /\ CheckTwice(id).table = CheckPost(id).table
              /\ CheckTwice(id).clock = CheckPost(id).clock
  /\ \A id \in DOMAIN tasks :
       id \notin DOMAIN RUNNING_AGENTS =>
         /\ CheckPost(id).ret = tasks[id]
         /\ NothingChanged(CheckPost(id))

\* the end of the process has been observed by a check, and the next
\* check finds the task untracked
C13_Witness ==
  \E id \in DOMAIN tasks :
    /\ tasks[id].status = "completed"
    /\ tasks[id].completed_at > tasks[id].started_at
    /\ tasks[id].started_at # NoTime
    /\ id \notin DOMAIN RUNNING_AGENTS
    /\ \A p \in DOMAIN procs : procs[p].task = id => procs[p].state = "exited"
    /\ procs # <<>>
    /\ CheckPost(id).ret = tasks[id]

\* the task was created and started once, successfully, by the controller
\* process that still runs
StartedOnce(id) ==
  /\ id \in DOMAIN tasks
  /\ tasks[id].status = "running"
  /\ tasks[id].error = None
  /\ id \in DOMAIN RUNNING_AGENTS
  /\ Cardinality({p \in DOMAIN procs : procs[p].task = id}) = 1

\* the call that observed the end has returned completed
EndObserved(id) ==
  /\ id \in DOMAIN tasks
  /\ tasks[id].status = "completed"
  /\ tasks[id].completed_at # NoTime
  /\ tasks[id].error = None
  /\ id \notin DOMAIN RUNNING_AGENTS
  /\ CheckPost(id).ret = tasks[id]
  /\ Cardinality({p \in DOMAIN procs : procs[p].task = id}) = 1

\* a delete_task, a stop_task or a second start_task (failed or not) has
\* come in between
Intervened(id) ==
  \/ id \notin DOMAIN tasks
  \/ tasks[id].status = "failed" /\ tasks[id].error # None
  \/ Cardinality({p \in DOMAIN procs : procs[p].task = id}) > 1

\* C14: a task created and successfully started in one controller process,
\* whose agent process exits and whose status is asked for afterwards (the
\* fairness of SpecLive), with no stop_task, delete_task or second
\* start_task in between, gets to status = completed with completed_at set
\* and error = None, and stays so from then on.
C14_EndToEnd ==
  /\ \A id \in TaskIds : StartedOnce(id) ~> (EndObserved(id) \/ Intervened(id))
  /\ [](\A id \in TaskIds :
         (StartedOnce(id) /\ procs[RUNNING_AGENTS[id]].state = "exited") =>
           /\ CheckPost(id).ret.status = "completed"
           /\ CheckPost(id).ret.completed_at # NoTime
           /\ CheckPost(id).ret.error = None
           /\ \E i \in DOMAIN ListPost.ret :
                /\ ListPost.ret[i].id = id
                /\ ListPost.ret[i].status = "completed"
                /\ ListPost.ret[i].completed_at # NoTime
                /\ ListPost.ret[i].error = None)
  /\ [][\A id \in TaskIds :
          EndObserved(id) => (EndObserved(id)' \/ Intervened(id)')]_vars

\* the scenario has run to its end with nothing in between
C14_Witness ==
  \E id \in TaskIds :
    /\ EndObserved(id)
    /\ tasks[id].started_at = 0
    /\ tasks[id].completed_at = 1
    /\ disk = Dump(tasks)

\* str.upper() of a text over Alphabet
upper(s) ==
  [i \in 1..Len(s) |->
     IF \E k \in DOMAIN LowerCase : LowerCase[k] = s[i]
       THEN UpperCase[CHOOSE k \in DOMAIN LowerCase : LowerCase[k] = s[i]]
       ELSE s[i]]

\* C15: for every description create_task returns and persists a new task
\* with status pending, no timestamps, no error, and the agent_type of the
\* selector; the selector looks at the description only, ignores case, and
\* takes the first list that matches in the order frontend/UI -> claude,
\* backend/data -> codex, locale -> glm; nothing matching (the empty
\* description too) -> codex.
C15_CreateSelects ==
  /\ \A id \in DOMAIN tasks :
       LET t == tasks[id]
           d == lower(t.description)
           front == \E kw \in FrontendKeywords : Contains(d, kw)
           back == \E kw \in BackendKeywords : Contains(d, kw)
           loc == \E kw \in LocaleKeywords : Contains(d, kw)
       IN /\ t.status = "pending"
          /\ t.started_at = NoTime
          /\ t.completed_at = NoTime
          /\ t.error = None
          /\ front => t.agent_type = "claude"
          /\ (~front /\ back) => t.agent_type = "codex"
          /\ (~front /\ ~back /\ loc) => t.agent_type = "glm"
          /\ (~front /\ ~back /\ ~loc) => t.agent_type = "codex"
          /\ select_agent(upper(t.description)) = t.agent_type
          /\ select_agent(d) = t.agent_type
          /\ disk = Dump(tasks)
          /\ Load(disk)[id] = t
  /\ tasks = EmptyMap =>
       \A d \in AllDescriptions :
         LET post == CreatePost(nextId, d, NoBranch)
         IN /\ post.ret = post.tasks[nextId]
            /\ post.ret.description = d
            /\ post.disk = Dump(post.tasks)
            /\ d = <<>> => post.ret.agent_type = "codex"

\* a description in mixed case that matches the frontend and the locale
\* list was created and went to claude
C15_Witness ==
  \E id \in DOMAIN tasks :
    /\ tasks[id].description = <<"U", "i", "c", "n">>
    /\ tasks[id].agent_type = "claude"
    /\ tasks[id].status = "pending"
    /\ disk = Dump(tasks)

\* C16: ensuring the worktree is idempotent.  The path is a function of
\* the branch only; when start_task is called on a task whose worktree
\* directory exists, git is not run (whether git works, fails or cannot be
\* run makes no difference to the call), the directories stay as they
\* are, and no failure of the call comes from the worktree step.
C16_WorktreeReused ==
  \A id \in DOMAIN tasks :
    /\ \A j \in DOMAIN tasks :
         tasks[j].branch = tasks[id].branch =>
           WorktreePath(tasks[j].branch) = WorktreePath(tasks[id].branch)
    /\ WorktreePath(tasks[id].branch) \in worktrees =>
         /\ LET post == StartPost(id, "none", TRUE)
            IN /\ post.ret = TRUE
               /\ StartPost(id, "git", TRUE) = post
         /\ \A f \in Faults :
              LET post == StartPost(id, f, TRUE)
              IN /\ post.worktrees = worktrees
                 /\ StartPost(id, f, FALSE) = post
                 /\ post.ret = FALSE =>
                      post.tasks[id].error \in {ErrDeps, ErrPrompt}

\* a start failed after it had created the worktree, and a later start on
\* the same task found the directory and launched the agent in it
C16_Witness ==
  \E id \in DOMAIN tasks :
    /\ WorktreePath(tasks[id].branch) \in worktrees
    /\ tasks[id].status = "running"
    /\ tasks[id].error = ErrDeps
    /\ Len(procs) = 1

\* C17: the id, description, agent_type and branch of a task never change
\* after create_task: every step leaves these four fields of every task
\* in the store as they were, in memory and in tasks.json, the id of a
\* record is the key it is stored under, and no two tasks that ever exist
\* in the store share an id (so no step puts another task under a key in
\* use).
C17_IdentityFixed ==
  /\ [](\A id \in DOMAIN tasks :
         /\ tasks[id].id = id
         /\ id \in DOMAIN Load(disk)
         /\ Load(disk)[id].id = id
         /\ Load(disk)[id].description = tasks[id].description
         /\ Load(disk)[id].agent_type = tasks[id].agent_type
         /\ Load(disk)[id].branch = tasks[id].branch)
  /\ [][\A id \in (DOMAIN tasks) \cap (DOMAIN tasks') :
          /\ tasks'[id].id = tasks[id].id
          /\ tasks'[id].description = tasks[id].description
          /\ tasks'[id].agent_type = tasks[id].agent_type
          /\ tasks'[id].branch = tasks[id].branch]_vars

\* C18: a read-modify-persist sequence is atomic relative to the other
\* controller calls: with two controller processes that loaded the same
\* file the outcome is that of the two operations in some serial order, so
\* no recorded transition is lost.  In every serial order a start_task
\* that launched a process has left started_at in tasks.json, and later
\* operations keep it: a task in tasks.json for which a process was
\* launched has started_at set there.
C18_NoLostTransition ==
  \A id \in DOMAIN Load(disk) :
    (\E p \in DOMAIN procs : procs[p].task = id) =>
      Load(disk)[id].started_at # NoTime

\* C19: whenever stop_task reports failure it has changed nothing: the
\* status and error of the task, the table, tasks.json and the processes
\* are as before the call.  This covers an unknown id, an untracked task,
\* a process group that is already gone, and a failure to write
\* tasks.json after the signal was sent.
C19_StopFailureChangesNothing ==
  \A id \in TaskIds, k \in BOOLEAN :
    /\ StopPost(id, k).ret = FALSE => NothingChanged(StopPost(id, k))
    /\ \A w \in WriteFaults :
         StopPostWriteFails(id, k, w).ret = FALSE =>
           NothingChanged(StopPostWriteFails(id, k, w))

\* C20: after delete_task has returned success RUNNING_AGENTS has no
\* entry for that id and no process launched for the task is left running
\* with no entry: every key of RUNNING_AGENTS is the id of a task in the
\* store, also when the stop inside delete_task fails.
C20_DeleteLeavesNothingBehind ==
  /\ DOMAIN RUNNING_AGENTS \subseteq DOMAIN tasks
  /\ \A id \in Deleted :
       /\ id \notin DOMAIN RUNNING_AGENTS
       /\ \A p \in DOMAIN procs :
            procs[p].task = id => procs[p].state \notin {"alive", "orphan"}

====
